---- MODULE Spec2Model ----
(***************************************************************************)
(* telegram-drive: a folder/file hierarchy kept in a chat's message log.   *)
(*                                                                         *)
(*   src/lib/telegram.ts            uploadToTelegram, getFileUrl,          *)
(*                                  createFolder, getFiles                 *)
(*   src/components/FileViewer.tsx  FileViewer (navigation, fetchItems)    *)
(*                                                                         *)
(* JavaScript strings are sequences of one-character strings, so that      *)
(* startsWith and split(':') are computed character by character.  An      *)
(* optional value (string | undefined) is None or Some(v).                 *)
(***************************************************************************)
EXTENDS Integers, Sequences, FiniteSets

VARIABLES
  log,            \* the chat: the sequence of updates the transport holds
  call,           \* the client's call of uploadToTelegram / createFolder / getFiles:
                  \* its arguments, where it stands and what it returned or threw
  items,          \* FileViewer state (FileViewer.tsx:27-31)
  isLoading,
  error,
  currentFolder,
  folderHistory,
  inflight,       \* getFiles promises fetchItems is awaiting: the folderId of each
  shownFor,       \* history variable: the folderId whose fetch filled `items`
  navFrom,        \* history variable: (currentFolder, folderHistory) at each folder click
  clients,        \* browsers using the same chat at once: where each one's calls stand
  uploader        \* MediaUploader state (FileViewer.tsx:208-215) and its handlers' runs

libVars == <<log, call>>
viewVars == <<items, isLoading, error, currentFolder, folderHistory, inflight,
              shownFor, navFrom>>
vars == <<log, call, items, isLoading, error, currentFolder, folderHistory,
          inflight, shownFor, navFrom, clients, uploader>>

----------------------------------------------------------------------------
(* Bounds of the model *)

MaxPage == 2      \* entries of a page drawn for a single fetch
MaxLog == 2       \* entries the library calls append to the log
MaxDepth == 3     \* folder clicks deep the viewer goes
MaxInflight == 2  \* getFiles promises pending at once when handlers are called directly
MaxEvents == 3    \* progress events the transport delivers for one upload
MaxSize == 3      \* bytes of an uploaded payload
MaxResolve == 2   \* entries of a page whose requests are followed one by one
MaxBatch == 2     \* files of one dropped batch

----------------------------------------------------------------------------
(* Optional values and JavaScript strings *)

None == <<>>
Some(v) == <<v>>
IsSome(o) == o # <<>>
Val(o) == o[1]

\* `x ? .. : ..`, `x && ..`, `x || ..` on a string | undefined: undefined and ''
\* are falsy
Truthy(o) == IsSome(o) /\ Val(o) # <<>>

StartsWith(s, p) == Len(s) >= Len(p) /\ SubSeq(s, 1, Len(p)) = p

\* Mutant: cut at the first and at the last ':' only (indexOf / lastIndexOf)
Split_FirstAndLast(s) ==
  LET colons == {i \in 1..Len(s) : s[i] = ":"}
      first == CHOOSE i \in colons : \A j \in colons : i <= j
      last == CHOOSE i \in colons : \A j \in colons : j <= i
  IN IF colons = {} THEN <<s>>
     ELSE IF first = last
     THEN <<SubSeq(s, 1, first - 1), SubSeq(s, first + 1, Len(s))>>
     ELSE <<SubSeq(s, 1, first - 1), SubSeq(s, first + 1, last - 1),
            SubSeq(s, last + 1, Len(s))>>

\* s.split(':'): the segments between the ':' of s, in order ('' gives [''])
RECURSIVE Split(_)
Split(s) ==
  IF \A i \in 1..Len(s) : s[i] # ":"
  THEN <<s>>
  ELSE LET k == CHOOSE i \in 1..Len(s) :
                  s[i] = ":" /\ \A j \in 1..(i - 1) : s[j] # ":"
       IN <<SubSeq(s, 1, k - 1)>> \o Split(SubSeq(s, k + 1, Len(s)))

DigitChars == <<"0", "1", "2", "3", "4", "5", "6", "7", "8", "9">>

\* Number.prototype.toString() of a message_id (a non-negative integer)
RECURSIVE toString(_)
toString(n) ==
  IF n < 10 THEN <<DigitChars[n + 1]>>
  ELSE toString(n \div 10) \o <<DigitChars[(n % 10) + 1]>>

FolderPrefix == <<"f", "o", "l", "d", "e", "r", ":">>
ParentPrefix == <<"p", "a", "r", "e", "n", "t", ":">>

----------------------------------------------------------------------------
(* The transport's data: updates, messages, documents *)

\* A document of a message (message.document)
Doc(fid, fname, mime, thumb) ==
  [file_id |-> fid, file_name |-> fname, mime_type |-> mime, thumb |-> thumb]

\* An update carrying a message, and one carrying none (an edited message, a poll)
Msg(id, doc, caption, text) ==
  [message |-> Some([message_id |-> id, document |-> doc,
                     caption |-> caption, text |-> text])]
NoMsg == [message |-> None]

\* file_id values the transport assigns: opaque, distinct from every message id
FileId(i) == <<"f">> \o toString(i)
ThumbId(i) == <<"t">> \o toString(i)

\* getFileUrl's result for a file the transport resolves (telegram.ts:85-86)
FileUrl(fid) == [base |-> "https://api.telegram.org/file/bot", file_path |-> fid]

DefaultMime == "application/octet-stream"
FallbackName(fid) == <<"f", "i", "l", "e", "_">> \o fid

----------------------------------------------------------------------------
(* The Error a call throws: its message is a fixed text, followed in the
   AxiosError branch by the detail the transport reported
   (`error.response?.data?.description || error.message`) *)

NoError == [message |-> "", detail |-> None]
\* `${prefix}${error.response?.data?.description || error.message}`
ErrorWithDetail(prefix, detail) == [message |-> prefix, detail |-> Some(detail)]
\* new Error('An unexpected error occurred ...'): the caught Error's own message
\* is logged and dropped
GenericError(text) == [message |-> text, detail |-> None]

\* The detail the transport reports with a request that fails: the description of
\* a response whose ok is false, the message of an AxiosError
Cause(outcome) ==
  IF outcome = "notok" THEN "response.data.description" ELSE "error.message"

----------------------------------------------------------------------------
(* getFiles (telegram.ts:129-192) *)

\* line 143: .filter(update => update.message && (message.document || message.text))
KeptUpdate(u) ==
  /\ IsSome(u.message)
  /\ (IsSome(Val(u.message).document) \/ Truthy(Val(u.message).text))

\* Mutant: the segment before the first ':' taken (split(':')[0])
CaptionParent_FirstSegment(captionOpt) ==
  LET caption == IF Truthy(captionOpt) THEN Val(captionOpt) ELSE <<>>
  IN IF StartsWith(caption, ParentPrefix) THEN Some(Split(caption)[1]) ELSE None

\* Mutant: the caption itself taken as the parentId (`message.caption`)
CaptionParent_WholeCaption(captionOpt) ==
  IF Truthy(captionOpt) THEN captionOpt ELSE None

\* line 149-150: the parentId a caption carries
CaptionParent(captionOpt) ==
  LET caption == IF Truthy(captionOpt) THEN Val(captionOpt) ELSE <<>>
  IN IF StartsWith(caption, ParentPrefix) THEN Some(Split(caption)[2]) ELSE None

\* Mutant: the test skipped for a record without parentId
\* (`parentId && xParentId && xParentId !== parentId`)
FilteredOut_SkipsRootRecords(parentId, recParentId) ==
  Truthy(parentId) /\ Truthy(recParentId) /\ recParentId # parentId

\* Mutant: a root listing that drops every record carrying a parentId
FilteredOut_RootDropsParented(parentId, recParentId) ==
  IF Truthy(parentId) THEN recParentId # parentId ELSE recParentId # None

\* line 152 and 167: `parentId && xParentId !== parentId`
FilteredOut(parentId, recParentId) == Truthy(parentId) /\ recParentId # parentId

\* Mutant: the prefix tested without its ':' (startsWith('folder'))
IsFolderText_NoColon(textOpt) ==
  Truthy(textOpt) /\ StartsWith(Val(textOpt), SubSeq(FolderPrefix, 1, 6))

\* line 164: a text message declares a folder
IsFolderText(textOpt) == Truthy(textOpt) /\ StartsWith(Val(textOpt), FolderPrefix)

\* lines 146-150, 156-163 and 164-165, 171-175: the record the callback builds
\* from one kept update, every getFileUrl having succeeded; None when the update
\* is neither a document nor a folder text
DecodeRecord(u) ==
  LET message == Val(u.message)
  IN IF IsSome(message.document)
     THEN LET file == Val(message.document)
          IN Some([id |-> file.file_id,
                   url |-> FileUrl(file.file_id),
                   type |-> IF IsSome(file.mime_type) /\ Val(file.mime_type) # ""
                            THEN Val(file.mime_type) ELSE DefaultMime,
                   name |-> IF Truthy(file.file_name)
                            THEN Val(file.file_name) ELSE FallbackName(file.file_id),
                   preview |-> IF IsSome(file.thumb)
                               THEN Some(FileUrl(Val(file.thumb))) ELSE None,
                   parentId |-> CaptionParent(message.caption)])
     ELSE IF IsFolderText(message.text)
     THEN LET parts == Split(Val(message.text))
          IN Some([id |-> toString(message.message_id),
                   name |-> parts[2],
                   parentId |-> IF Len(parts) >= 3 THEN Some(parts[3]) ELSE None])
     ELSE None

\* lines 144-178: the map callback: the record, unless the parentId test at line
\* 152 or 167 returns null
DecodeUpdate(u, parentId) ==
  LET rec == DecodeRecord(u)
  IN IF IsSome(rec) /\ FilteredOut(parentId, Val(rec).parentId) THEN None ELSE rec

\* The getFileUrl requests the callback issues for one kept update: the file's
\* (line 148, before the parentId test) and its thumb's (line 161, after it)
ResolveRequests(u, parentId) ==
  LET message == Val(u.message)
  IN IF IsSome(message.document)
     THEN LET file == Val(message.document)
          IN {file.file_id} \cup
             (IF ~FilteredOut(parentId, CaptionParent(message.caption)) /\ IsSome(file.thumb)
              THEN {Val(file.thumb)} ELSE {})
     ELSE {}

RECURSIVE KeptOf(_)
KeptOf(page) ==
  IF page = <<>> THEN <<>>
  ELSE (IF KeptUpdate(Head(page)) THEN <<Head(page)>> ELSE <<>>) \o KeptOf(Tail(page))

\* line 180: items.filter(Boolean) over the callbacks' results, in page order
RECURSIVE DecodeAll(_, _)
DecodeAll(kept, parentId) ==
  IF kept = <<>> THEN <<>>
  ELSE DecodeUpdate(Head(kept), parentId) \o DecodeAll(Tail(kept), parentId)

AllRequests(page, parentId) ==
  UNION {ResolveRequests(KeptOf(page)[i], parentId) : i \in 1..Len(KeptOf(page))}

ErrFetchAxios == "Failed to get files and folders: "
ErrFetchOther == "An unexpected error occurred while fetching files and folders"

\* The whole call: `outcome` is what the getUpdates request does ("ok", "notok":
\* a response with ok = false, "axios": an AxiosError), `bad` the file references
\* whose getFileUrl fails.  A rejected callback rejects Promise.all, and the catch
\* at line 184 rethrows.
getFiles(page, parentId, outcome, bad) ==
  IF outcome = "axios"
  THEN [ok |-> FALSE, items |-> <<>>,
        error |-> ErrorWithDetail(ErrFetchAxios, Cause(outcome))]
  ELSE IF outcome = "notok"
  THEN [ok |-> FALSE, items |-> <<>>, error |-> GenericError(ErrFetchOther)]
  ELSE IF AllRequests(page, parentId) \cap bad # {}
  THEN [ok |-> FALSE, items |-> <<>>, error |-> GenericError(ErrFetchOther)]
  ELSE [ok |-> TRUE, items |-> DecodeAll(KeptOf(page), parentId), error |-> NoError]

----------------------------------------------------------------------------
(* createFolder (telegram.ts:100-127) *)

\* Mutant: the separator sent even without a parent (`folder:${name}:${parentId ?? ''}`)
FolderText_AlwaysSeparator(name, parentId) ==
  FolderPrefix \o name \o <<":">> \o (IF Truthy(parentId) THEN Val(parentId) ELSE <<>>)

\* line 106: `folder:${name}${parentId ? `:${parentId}` : ''}`
FolderText(name, parentId) ==
  FolderPrefix \o name \o (IF Truthy(parentId) THEN <<":">> \o Val(parentId) ELSE <<>>)

\* The message the transport appends for a sendMessage request: it assigns the
\* next message_id of the chat
TextMessage(chat, text) == Msg(Len(chat) + 1, None, None, Some(text))

ErrFolderAxios == "Failed to create folder: "
ErrFolderOther == "An unexpected error occurred while creating the folder"

\* Mutant: the id read from the message's chat (result.chat.id), the same for
\* every message
FolderReturn_ChatId(message_id, name, parentId) ==
  [id |-> <<"c", "h", "a", "t">>, name |-> name, parentId |-> parentId]

\* lines 111-115: the record returned for the message the transport stored
FolderReturn(message_id, name, parentId) ==
  [id |-> toString(message_id), name |-> name, parentId |-> parentId]

\* What the call returns or throws.  `outcome`: "ok"; "notok", a response with
\* ok = false, whose Error the catch at line 119 replaces; "axios", an AxiosError
\* before the message was stored; "lost", an AxiosError after it was stored.
createFolder(chat, name, parentId, outcome) ==
  IF outcome = "ok"
  THEN [ok |-> TRUE, error |-> NoError,
        ret |-> Some(FolderReturn(Len(chat) + 1, name, parentId))]
  ELSE [ok |-> FALSE, ret |-> None,
        error |-> IF outcome = "notok" THEN GenericError(ErrFolderOther)
                  ELSE ErrorWithDetail(ErrFolderAxios, Cause(outcome))]

----------------------------------------------------------------------------
(* uploadToTelegram (telegram.ts:25-76) *)

\* Mutant: the caption appended without the test of line 34 (`parent:undefined`)
UploadCaption_Unconditional(parentId) ==
  Some(ParentPrefix \o (IF IsSome(parentId) THEN Val(parentId)
                        ELSE <<"u", "n", "d", "e", "f", "i", "n", "e", "d">>))

\* lines 34-36: the caption field of the form, absent when parentId is falsy
UploadCaption(parentId) ==
  IF Truthy(parentId) THEN Some(ParentPrefix \o Val(parentId)) ELSE None

\* Mutant: the caption sent under a field name the transport ignores
DocMessage_NoCaption(chat, fileName, caption) ==
  Msg(Len(chat) + 1,
      Some(Doc(FileId(Len(chat) + 1), Some(fileName), Some("image/png"), None)),
      None, None)

\* The message the transport appends for a sendDocument request
DocMessage(chat, fileName, caption) ==
  Msg(Len(chat) + 1,
      Some(Doc(FileId(Len(chat) + 1), Some(fileName), Some("image/png"), None)),
      caption, None)

\* line 48: Math.round((loaded * 100) / total), total > 0
PercentCompleted(loaded, total) == (2 * loaded * 100 + total) \div (2 * total)

\* lines 46-51: what one progress event adds to the values onProgress has received
OnUploadProgress(progress, loaded, total) ==
  IF IsSome(total) /\ Val(total) # 0
  THEN Append(progress, PercentCompleted(loaded, Val(total)))
  ELSE progress

\* lines 39-53: the sendDocument request
SendDocumentRequest == [kind |-> "sendDocument", ref |-> <<>>, late |-> FALSE]

ErrUploadAxios == "Failed to upload file: "
ErrUploadOther == "An unexpected error occurred while uploading the file"

----------------------------------------------------------------------------
(* Inputs *)

Id1 == toString(1)
Id2 == toString(2)
Id7 == toString(7)        \* an id no entry of a bounded log carries: an orphan's parent

NameA == <<"a">>
NameAB == <<"a", ":", "b">>
FolderNames == {NameA, NameAB}
FileNames == {<<"p">>}

\* parentId arguments: absent, or a folder id (the decimal digits of a message_id)
ParentArgs == {None, Some(Id1), Some(Id2), Some(Id7)}
\* FileViewer also passes '' for the root (FileViewer.tsx:53)
FetchArgs == ParentArgs \cup {Some(<<>>)}

\* What a request to the transport does
Outcomes == {"ok", "notok", "axios", "lost"}
FetchOutcomes == {"ok", "notok", "axios"}

\* Texts and captions a chat holds, whoever sent them
Texts ==
  { FolderText(NameA, None),                \* folder:a
    FolderText(NameA, Some(Id1)),           \* folder:a:1
    FolderText(<<"b">>, Some(Id7)),         \* folder:b:7
    FolderText(NameAB, Some(Id1)),          \* folder:a:b:1
    FolderPrefix,                           \* folder:
    FolderPrefix \o <<"a", ":">>,           \* folder:a:
    <<"f", "o", "l", "d", "e", "r", "s", ":", "a">>,    \* folders:a
    <<"h", "i">> }
Captions ==
  { None,
    Some(ParentPrefix \o Id1),              \* parent:1
    Some(ParentPrefix \o Id7),              \* parent:7
    Some(ParentPrefix \o Id1 \o <<":">> \o Id2),   \* parent:1:2
    Some(ParentPrefix),                     \* parent:
    Some(SubSeq(ParentPrefix, 1, 6)),       \* parent
    Some(<<"x">>) }

\* The updates a page can hold at position i
UpdatesAt(i) ==
  {Msg(i, None, None, Some(t)) : t \in Texts}
  \cup {Msg(i, Some(Doc(FileId(i), Some(<<"p">>), Some("image/png"), None)), c, None) :
          c \in Captions}
  \cup {Msg(i, Some(Doc(FileId(i), None, None, Some(ThumbId(i)))), c, None) :
          c \in {None, Some(ParentPrefix \o Id2)}}
  \cup {Msg(i, None, None, None), NoMsg}

RECURSIVE PagesOfLen(_)
PagesOfLen(n) ==
  IF n = 0 THEN {<<>>}
  ELSE {Append(p, u) : p \in PagesOfLen(n - 1), u \in UpdatesAt(n)}

Pages == UNION {PagesOfLen(n) : n \in 0..MaxPage}

\* The file references of a page: what a getFileUrl request can name
Refs(page) ==
  UNION {IF IsSome(page[i].message) /\ IsSome(Val(page[i].message).document)
         THEN LET file == Val(Val(page[i].message).document)
              IN {file.file_id} \cup
                 (IF IsSome(file.thumb) THEN {Val(file.thumb)} ELSE {})
         ELSE {} : i \in 1..Len(page)}

----------------------------------------------------------------------------
(* The library's calls as actions *)

CallNone == [op |-> "none", pc |-> "done"]
InCall == call.pc \in {"sending", "resolving"}

\* One createFolder call, start to end: a single request
CallCreateFolder ==
  /\ ~InCall
  /\ \E name \in FolderNames, parentId \in ParentArgs, outcome \in Outcomes :
       LET r == createFolder(log, name, parentId, outcome)
       IN /\ outcome \in {"ok", "lost"} => Len(log) < MaxLog
          /\ log' = IF outcome \in {"ok", "lost"}
                    THEN Append(log, TextMessage(log, FolderText(name, parentId)))
                    ELSE log
          /\ call' = [op |-> "createFolder", pc |-> IF r.ok THEN "done" ELSE "failed",
                      name |-> name, parentId |-> parentId, outcome |-> outcome,
                      cause |-> IF r.ok THEN None ELSE Some(Cause(outcome)),
                      ok |-> r.ok, ret |-> r.ret, error |-> r.error]

\* Mutant: a page request that confirms the updates it reads (an `offset`
\* parameter), so that the transport drops them
CallGetFiles_ConfirmsUpdates ==
  /\ ~InCall
  /\ \E parentId \in FetchArgs, outcome \in FetchOutcomes,
        bad \in {{}} \cup {{x} : x \in Refs(log)} :
       LET r == getFiles(log, parentId, outcome, bad)
       IN /\ outcome # "ok" => bad = {}
          /\ call' = [op |-> "getFiles", pc |-> IF r.ok THEN "done" ELSE "failed",
                      parentId |-> parentId, outcome |-> outcome, bad |-> bad,
                      ok |-> r.ok, items |-> r.items, error |-> r.error]
          /\ log' = IF outcome = "ok" THEN <<>> ELSE log

\* One getFiles call on the page the transport returns: the page request, then
\* the getFileUrl requests, of which at most one reference fails
CallGetFiles ==
  /\ ~InCall
  /\ \E parentId \in FetchArgs, outcome \in FetchOutcomes,
        bad \in {{}} \cup {{x} : x \in Refs(log)} :
       LET r == getFiles(log, parentId, outcome, bad)
       IN /\ outcome # "ok" => bad = {}
          /\ call' = [op |-> "getFiles", pc |-> IF r.ok THEN "done" ELSE "failed",
                      parentId |-> parentId, outcome |-> outcome, bad |-> bad,
                      ok |-> r.ok, items |-> r.items, error |-> r.error]
          /\ log' = log

\* uploadToTelegram up to the await at line 39: the form is built and the request
\* sent; `size` is the request body's length, `computable` whether progress
\* events carry it as their total
UploadStart(parents, computables) ==
  /\ ~InCall
  /\ Len(log) < MaxLog
  /\ \E fileName \in FileNames, parentId \in parents, size \in 1..MaxSize,
        computable \in computables :
       call' = [op |-> "uploadToTelegram", pc |-> "sending",
                fileName |-> fileName, parentId |-> parentId,
                caption |-> UploadCaption(parentId),
                size |-> size, total |-> IF computable THEN Some(size) ELSE None,
                loaded |-> 0, events |-> 0, progress |-> <<>>,
                fileId |-> None, type |-> None, cause |-> None,
                requests |-> <<SendDocumentRequest>>,
                ok |-> FALSE, ret |-> None, error |-> NoError]
  /\ log' = log

\* The transport reports bytes sent: onUploadProgress runs (lines 46-51)
UploadProgress ==
  /\ call.op = "uploadToTelegram" /\ call.pc = "sending"
  /\ call.events < MaxEvents
  /\ \E loaded \in call.loaded..call.size :
       call' = [call EXCEPT !.loaded = loaded, !.events = @ + 1,
                            !.progress = OnUploadProgress(@, loaded, call.total)]
  /\ log' = log

\* The sendDocument request ends (lines 39-67)
UploadResponse ==
  /\ call.op = "uploadToTelegram" /\ call.pc = "sending"
  /\ \E outcome \in Outcomes :
       LET sent == DocMessage(log, call.fileName, call.caption)
           doc == Val(Val(sent.message).document)
       IN /\ log' = IF outcome \in {"ok", "lost"} THEN Append(log, sent) ELSE log
          /\ call' = IF outcome = "ok"
                     THEN [call EXCEPT !.pc = "resolving", !.fileId = Some(doc.file_id),
                                       !.type = doc.mime_type,
                                       !.requests = Append(@, [kind |-> "getFile",
                                                               ref |-> doc.file_id,
                                                               late |-> FALSE])]
                     ELSE [call EXCEPT !.pc = "failed",
                                       !.cause = Some(Cause(outcome)),
                                       !.error = IF outcome = "notok"
                                                 THEN GenericError(ErrUploadOther)
                                                 ELSE ErrorWithDetail(ErrUploadAxios,
                                                                      Cause(outcome))]

\* Mutant: a getFileUrl failure swallowed, the record returned without url
UploadResolve_ReturnsWithoutUrl ==
  /\ call.op = "uploadToTelegram" /\ call.pc = "resolving"
  /\ \E outcome \in FetchOutcomes :
       call' = [call EXCEPT !.pc = "done", !.ok = TRUE,
                            !.cause = IF outcome = "ok" THEN None ELSE Some(Cause(outcome)),
                            !.ret = Some([id |-> Val(call.fileId),
                                          url |-> IF outcome = "ok"
                                                  THEN Some(FileUrl(Val(call.fileId)))
                                                  ELSE None,
                                          type |-> call.type,
                                          name |-> call.fileName,
                                          parentId |-> call.parentId])]
  /\ log' = log

\* getFileUrl(fileId) ends (lines 57-64, 78-98): the Error it throws carries the
\* getFile request's detail but is not an AxiosError
UploadResolve ==
  /\ call.op = "uploadToTelegram" /\ call.pc = "resolving"
  /\ \E outcome \in FetchOutcomes :
       call' = IF outcome = "ok"
               THEN [call EXCEPT !.pc = "done", !.ok = TRUE,
                                 !.ret = Some([id |-> Val(call.fileId),
                                               url |-> FileUrl(Val(call.fileId)),
                                               type |-> call.type,
                                               name |-> call.fileName,
                                               parentId |-> call.parentId])]
               ELSE [call EXCEPT !.pc = "failed", !.cause = Some(Cause(outcome)),
                                 !.error = GenericError(ErrUploadOther)]
  /\ log' = log

----------------------------------------------------------------------------
(* FileViewer not mounted: the library's specifications leave it alone *)

ViewerIdle ==
  /\ items = <<>> /\ isLoading = TRUE /\ error = None
  /\ currentFolder = None /\ folderHistory = <<>>
  /\ inflight = <<>> /\ shownFor = None /\ navFrom = <<>>

\* SpecFetch: getFiles once on every page of the bounded set
InitFetch == log \in Pages /\ call = CallNone /\ ViewerIdle /\ clients = <<>> /\ uploader = <<>>
FetchPage == call.op = "none" /\ CallGetFiles /\ UNCHANGED <<viewVars, clients, uploader>>
NextFetch == FetchPage
SpecFetch == InitFetch /\ [][NextFetch]_vars

\* SpecLib: one client calling the library on a chat that starts empty; its
\* uploads report no computable total, so that no progress value is delivered
InitLib == log = <<>> /\ call = CallNone /\ ViewerIdle /\ clients = <<>> /\ uploader = <<>>
NextLib ==
  \/ CallCreateFolder /\ UNCHANGED <<viewVars, clients, uploader>>
  \/ CallGetFiles /\ UNCHANGED <<viewVars, clients, uploader>>
  \/ UploadStart(ParentArgs, {FALSE}) /\ UNCHANGED <<viewVars, clients, uploader>>
  \/ UploadResponse /\ UNCHANGED <<viewVars, clients, uploader>>
  \/ UploadResolve /\ UNCHANGED <<viewVars, clients, uploader>>
SpecLib == InitLib /\ [][NextLib]_vars

\* SpecUpload: uploads with their progress events
NextUpload ==
  \/ UploadStart({None, Some(Id1)}, BOOLEAN) /\ UNCHANGED <<viewVars, clients, uploader>>
  \/ UploadProgress /\ UNCHANGED <<viewVars, clients, uploader>>
  \/ UploadResponse /\ UNCHANGED <<viewVars, clients, uploader>>
  \/ UploadResolve /\ UNCHANGED <<viewVars, clients, uploader>>
SpecUpload == InitLib /\ [][NextUpload]_vars

----------------------------------------------------------------------------
(* getFiles request by request (telegram.ts:129-192): the page request, then one
   async callback per kept update, all started by map() before Promise.all
   awaits them.  A callback runs up to its first await when it starts, so the
   getFileUrl request of every document is issued at once; each callback then
   goes on when its own request ends, whatever became of the others. *)

GetUpdatesRequest == [kind |-> "getUpdates", ref |-> <<>>, late |-> FALSE]
\* `late`: a request of this call had failed when this one was issued
GetFileRequest(ref, late) == [kind |-> "getFile", ref |-> ref, late |-> late]

IsDocument(u) == IsSome(Val(u.message).document)

\* lines 144-148 and 164-177: a callback after its synchronous part: awaiting
\* getFileUrl(file.file_id), or settled with a folder record or null
StartCallback(u, parentId) ==
  IF IsDocument(u) THEN [pc |-> "file", result |-> None]
  ELSE [pc |-> "done", result |-> DecodeUpdate(u, parentId)]

\* line 148 for each document of the page, in page order
RECURSIVE FileRequests(_)
FileRequests(kept) ==
  IF kept = <<>> THEN <<>>
  ELSE (IF IsDocument(Head(kept))
        THEN <<GetFileRequest(Val(Val(Head(kept).message).document).file_id, FALSE)>>
        ELSE <<>>) \o FileRequests(Tail(kept))

\* The callbacks settled when map() returns, in page order, from position i on
RECURSIVE SettledAtStart(_, _)
SettledAtStart(kept, i) ==
  IF i > Len(kept) THEN <<>>
  ELSE (IF IsDocument(kept[i]) THEN <<>> ELSE <<i>>) \o SettledAtStart(kept, i + 1)

\* Mutant: a callback that catches its own failure and returns null, the entry
\* being skipped
Rejected_SkipsEntry(c, i, ref) ==
  [c EXCEPT !.cb[i] = [pc |-> "done", result |-> None],
            !.failed = @ \cup {ref},
            !.order = Append(@, i)]

\* A getFileUrl of callback i throws: the callback's promise rejects; the first
\* rejection rejects Promise.all, and the catch at line 184 rethrows (the Error
\* of getFileUrl is not an AxiosError)
Rejected(c, i, ref) ==
  [c EXCEPT !.cb[i] = [pc |-> "rejected", result |-> None],
            !.failed = @ \cup {ref},
            !.pc = IF @ = "awaiting" THEN "failed" ELSE @,
            !.error = IF c.pc = "awaiting" THEN GenericError(ErrFetchOther) ELSE @]

RECURSIVE ResultsAt(_, _)
ResultsAt(c, idxs) ==
  IF idxs = <<>> THEN <<>>
  ELSE c.cb[Head(idxs)].result \o ResultsAt(c, Tail(idxs))

\* Mutant: the results gathered as the callbacks settle (items.push in each)
Collect_CompletionOrder(c) == ResultsAt(c, c.order)

\* lines 142 and 180: Promise.all gives the results at their callbacks' positions;
\* filter(Boolean) drops the nulls
Collect(c) == ResultsAt(c, [i \in 1..Len(c.cb) |-> i])

\* lines 131-144: the page request, and on an ok response the callbacks started
FetchStart ==
  /\ call.op = "none"
  /\ \E parentId \in FetchArgs, outcome \in FetchOutcomes :
       LET kept == KeptOf(log)
           r == getFiles(log, parentId, outcome, {})
       IN call' = [op |-> "getFiles", parentId |-> parentId, outcome |-> outcome,
                   pc |-> IF outcome = "ok" THEN "awaiting" ELSE "failed",
                   kept |-> IF outcome = "ok" THEN kept ELSE <<>>,
                   cb |-> IF outcome = "ok"
                          THEN [i \in 1..Len(kept) |-> StartCallback(kept[i], parentId)]
                          ELSE <<>>,
                   requests |-> <<GetUpdatesRequest>>
                                  \o (IF outcome = "ok" THEN FileRequests(kept) ELSE <<>>),
                   failed |-> {},
                   order |-> IF outcome = "ok" THEN SettledAtStart(kept, 1) ELSE <<>>,
                   ok |-> FALSE, items |-> <<>>,
                   error |-> IF outcome = "ok" THEN NoError ELSE r.error]
  /\ log' = log

\* lines 148-163: getFileUrl(file.file_id) of callback i ends; the callback goes
\* on to the parentId test and, for a record with a thumb, to line 161
FileResolved ==
  /\ call.op = "getFiles" /\ "cb" \in DOMAIN call
  /\ \E i \in 1..Len(call.cb), resolved \in BOOLEAN :
       LET u == call.kept[i]
           message == Val(u.message)
           file == Val(message.document)
       IN /\ call.cb[i].pc = "file"
          /\ call' =
               IF ~resolved THEN Rejected(call, i, file.file_id)
               ELSE IF FilteredOut(call.parentId, CaptionParent(message.caption))
               THEN [call EXCEPT !.cb[i] = [pc |-> "done", result |-> None],
                                 !.order = Append(@, i)]
               ELSE IF IsSome(file.thumb)
               THEN [call EXCEPT !.cb[i].pc = "thumb",
                                 !.requests = Append(@, GetFileRequest(Val(file.thumb),
                                                                       call.failed # {}))]
               ELSE [call EXCEPT !.cb[i] = [pc |-> "done", result |-> DecodeRecord(u)],
                                 !.order = Append(@, i)]
  /\ log' = log

\* line 161: getFileUrl(file.thumb.file_id) of callback i ends
ThumbResolved ==
  /\ call.op = "getFiles" /\ "cb" \in DOMAIN call
  /\ \E i \in 1..Len(call.cb), resolved \in BOOLEAN :
       LET u == call.kept[i]
           file == Val(Val(u.message).document)
       IN /\ call.cb[i].pc = "thumb"
          /\ call' =
               IF ~resolved THEN Rejected(call, i, Val(file.thumb))
               ELSE [call EXCEPT !.cb[i] = [pc |-> "done", result |-> DecodeRecord(u)],
                                 !.order = Append(@, i)]
  /\ log' = log

\* lines 142 and 180: every callback has settled without rejecting
FetchReturn ==
  /\ call.op = "getFiles" /\ "cb" \in DOMAIN call
  /\ call.pc = "awaiting"
  /\ \A i \in 1..Len(call.cb) : call.cb[i].pc = "done"
  /\ call' = [call EXCEPT !.pc = "done", !.ok = TRUE, !.items = Collect(call)]
  /\ log' = log

\* The pages of SpecResolve
ResolveUpdatesAt(i) ==
  { Msg(i, None, None, Some(FolderText(NameA, None))),
    Msg(i, None, None, Some(FolderText(NameA, Some(Id1)))),
    Msg(i, None, None, Some(<<"h", "i">>)),
    Msg(i, Some(Doc(FileId(i), Some(<<"p">>), Some("image/png"), None)),
        Some(ParentPrefix \o Id1), None),
    Msg(i, Some(Doc(FileId(i), None, None, Some(ThumbId(i)))), None, None),
    Msg(i, Some(Doc(FileId(i), None, None, Some(ThumbId(i)))),
        Some(ParentPrefix \o Id1), None) }

RECURSIVE ResolvePagesOfLen(_)
ResolvePagesOfLen(n) ==
  IF n = 0 THEN {<<>>}
  ELSE {Append(p, u) : p \in ResolvePagesOfLen(n - 1), u \in ResolveUpdatesAt(n)}

ResolvePages == UNION {ResolvePagesOfLen(n) : n \in 0..MaxResolve}

\* SpecResolve: one getFiles call, its requests ending in any order
InitResolve == log \in ResolvePages /\ call = CallNone /\ ViewerIdle /\ clients = <<>> /\ uploader = <<>>
NextResolve ==
  \/ FetchStart /\ UNCHANGED <<viewVars, clients, uploader>>
  \/ FileResolved /\ UNCHANGED <<viewVars, clients, uploader>>
  \/ ThumbResolved /\ UNCHANGED <<viewVars, clients, uploader>>
  \/ FetchReturn /\ UNCHANGED <<viewVars, clients, uploader>>
SpecResolve == InitResolve /\ [][NextResolve]_vars

----------------------------------------------------------------------------
(* Several browsers on one chat.  Each runs the library on its own; the chat is
   all they share.  A request reaches the transport some time after it was sent
   and its response reaches the caller some time after that, so the calls of
   two clients interleave at every request.  Each client here creates a folder,
   uploads one file into the folder it was given, and lists that folder; it can
   list the root once along the way. *)

Clients == {"c1", "c2"}

ClientIdle ==
  [pc |-> "idle", name |-> <<>>, parentId |-> None, fileName |-> <<>>,
   reply |-> None, folder |-> None, file |-> None, listed |-> None, root |-> None]

\* createFolder(name, parentId) up to the await at line 102
SendCreateFolder(c) ==
  /\ clients[c].pc = "idle"
  /\ \E name \in FolderNames, parentId \in {None, Some(Id1)} :
       clients' = [clients EXCEPT ![c].pc = "creating", ![c].name = name,
                                  ![c].parentId = parentId]
  /\ log' = log

\* The sendMessage request of c reaches the transport, or is lost on the way
TransportCreateFolder(c) ==
  /\ clients[c].pc = "creating"
  /\ \E outcome \in {"ok", "axios"} :
       LET r == createFolder(log, clients[c].name, clients[c].parentId, outcome)
       IN /\ log' = IF outcome = "ok"
                    THEN Append(log, TextMessage(log, FolderText(clients[c].name,
                                                                 clients[c].parentId)))
                    ELSE log
          /\ clients' = [clients EXCEPT ![c].pc = "replied", ![c].reply = Some(r)]

\* lines 110-126: the response reaches c, and createFolder returns or throws
ReturnCreateFolder(c) ==
  /\ clients[c].pc = "replied"
  /\ clients' = [clients EXCEPT
                   ![c].pc = IF Val(clients[c].reply).ok THEN "created" ELSE "failed",
                   ![c].folder = Val(clients[c].reply).ret,
                   ![c].reply = None]
  /\ log' = log

\* uploadToTelegram(file, fileName, F) up to the await at line 39, F being the id
\* createFolder returned to c
SendUpload(c) ==
  /\ clients[c].pc = "created"
  /\ \E fileName \in FileNames :
       clients' = [clients EXCEPT ![c].pc = "uploading", ![c].fileName = fileName]
  /\ log' = log

\* The sendDocument request of c reaches the transport, or is lost on the way
TransportUpload(c) ==
  /\ clients[c].pc = "uploading"
  /\ \E outcome \in {"ok", "axios"} :
       LET F == Val(clients[c].folder).id
           sent == DocMessage(log, clients[c].fileName, UploadCaption(Some(F)))
       IN IF outcome = "ok"
          THEN /\ log' = Append(log, sent)
               /\ clients' = [clients EXCEPT ![c].pc = "stored",
                                              ![c].reply = sent.message]
          ELSE /\ log' = log
               /\ clients' = [clients EXCEPT ![c].pc = "failed"]

\* lines 55-64: the response reaches c, getFileUrl resolves, the record is returned
ReturnUpload(c) ==
  /\ clients[c].pc = "stored"
  /\ LET doc == Val(Val(clients[c].reply).document)
     IN clients' = [clients EXCEPT
                     ![c].pc = "uploaded",
                     ![c].reply = None,
                     ![c].file = Some([id |-> doc.file_id,
                                       url |-> FileUrl(doc.file_id),
                                       type |-> doc.mime_type,
                                       name |-> clients[c].fileName,
                                       parentId |-> Some(Val(clients[c].folder).id)])]
  /\ log' = log

\* getFiles(F) by c, every request succeeding
FetchFolder(c) ==
  /\ clients[c].pc = "uploaded"
  /\ clients' = [clients EXCEPT
                   ![c].pc = "listed",
                   ![c].listed = Some(getFiles(log, Some(Val(clients[c].folder).id),
                                               "ok", {}).items)]
  /\ log' = log

\* getFiles() by c, every request succeeding
FetchRoot(c) ==
  /\ clients[c].pc \in {"created", "uploaded", "listed"}
  /\ clients[c].root = None
  /\ clients' = [clients EXCEPT ![c].root = Some(getFiles(log, None, "ok", {}).items)]
  /\ log' = log

\* SpecClients: two clients on a chat that starts empty
InitClients ==
  /\ log = <<>> /\ call = CallNone /\ ViewerIdle
  /\ clients = [c \in Clients |-> ClientIdle]
  /\ uploader = <<>>
NextClients ==
  \/ \E c \in Clients : SendCreateFolder(c) /\ UNCHANGED <<call, viewVars, uploader>>
  \/ \E c \in Clients : TransportCreateFolder(c) /\ UNCHANGED <<call, viewVars, uploader>>
  \/ \E c \in Clients : ReturnCreateFolder(c) /\ UNCHANGED <<call, viewVars, uploader>>
  \/ \E c \in Clients : SendUpload(c) /\ UNCHANGED <<call, viewVars, uploader>>
  \/ \E c \in Clients : TransportUpload(c) /\ UNCHANGED <<call, viewVars, uploader>>
  \/ \E c \in Clients : ReturnUpload(c) /\ UNCHANGED <<call, viewVars, uploader>>
  \/ \E c \in Clients : FetchFolder(c) /\ UNCHANGED <<call, viewVars, uploader>>
  \/ \E c \in Clients : FetchRoot(c) /\ UNCHANGED <<call, viewVars, uploader>>
SpecClients == InitClients /\ [][NextClients]_vars

----------------------------------------------------------------------------
(* MediaUploader (FileViewer.tsx:207-347), mounted by Home with a currentFolder
   that nothing sets (line 775), so undefined.  The dropzone takes a drop at any
   time; the Upload Recording button is disabled while isUploading.  Each run of
   onDrop or handleUpload is a batch: the files it goes through, the index of
   the one being uploaded, the files attempted and how each attempt ended. *)

BatchIds == {"drop1", "drop2", "video"}
DropIds == {"drop1", "drop2"}

VideoName == <<"v">>
\* The lists a drop hands to onDrop
DropLists == {SubSeq(<<<<"p">>, <<"q">>, <<"r">>, <<"s">>>>, 1, n) : n \in 1..MaxBatch}

BatchIdle == [pc |-> "idle", files |-> <<>>, i |-> 0, attempts |-> <<>>, outcomes |-> <<>>]

\* lines 292-294 / 317-318: the loop reaches its first await
BatchStarted(files) ==
  [pc |-> "uploading", files |-> files, i |-> 1, attempts |-> <<files[1]>>,
   outcomes |-> <<>>]

UploaderMounted ==
  [isUploading |-> FALSE, uploadProgress |-> 0, error |-> None,
   recordedBlob |-> FALSE, batch |-> [b \in BatchIds |-> BatchIdle]]

\* lines 287-294: onDrop(acceptedFiles) up to the first await; "drop1" is the
\* earlier of the two drops
onDrop(b, acceptedFiles) ==
  /\ uploader.batch[b].pc = "idle"
  /\ b = "drop2" => uploader.batch["drop1"].pc # "idle"
  /\ uploader' = [uploader EXCEPT !.isUploading = TRUE, !.uploadProgress = 0,
                                   !.error = None,
                                   !.batch[b] = BatchStarted(acceptedFiles)]
  /\ log' = log

\* lines 255-258: the recorder stops and hands over the recorded blob
RecorderStops ==
  /\ ~uploader.recordedBlob
  /\ uploader.batch["video"].pc = "idle"
  /\ uploader' = [uploader EXCEPT !.recordedBlob = TRUE]
  /\ log' = log

\* lines 312-318 and 441: a click on Upload Recording, up to the await
handleUpload ==
  /\ uploader.recordedBlob
  /\ ~uploader.isUploading
  /\ uploader.batch["video"].pc = "idle"
  /\ uploader' = [uploader EXCEPT !.isUploading = TRUE, !.uploadProgress = 0,
                                   !.error = None,
                                   !.batch["video"] = BatchStarted(<<VideoName>>)]
  /\ log' = log

\* The progress events of an upload of a two-byte file
BatchProgressEvents ==
  {[loaded |-> 1, total |-> Some(2)], [loaded |-> 2, total |-> Some(2)],
   [loaded |-> 1, total |-> None]}

\* lines 294-296 / 318-320: onProgress of the upload in flight of batch b
BatchProgress(b) ==
  /\ uploader.batch[b].pc = "uploading"
  /\ \E event \in BatchProgressEvents :
       LET delivered == OnUploadProgress(<<>>, event.loaded, event.total)
       IN /\ delivered # <<>>
          /\ uploader' = [uploader EXCEPT !.uploadProgress = delivered[1]]
  /\ log' = log

\* Mutant: the loop left at the first failed upload (`break` in the catch)
NextFile_StopsOnFailure(batch, succeeded) ==
  IF succeeded THEN batch.i + 1 ELSE Len(batch.files) + 1

\* lines 292-304: the catch is inside the loop: the next file comes whatever
\* became of this one
NextFile(batch, succeeded) == batch.i + 1

\* lines 294-307 / 318-331: the awaited uploadToTelegram of batch b returns or
\* throws; the handler runs on to its next await or to its end
BatchUploadEnds(b) ==
  /\ uploader.batch[b].pc = "uploading"
  /\ \E outcome \in Outcomes :
       LET batch == uploader.batch[b]
           name == batch.files[batch.i]
           succeeded == outcome = "ok"
           next == NextFile(batch, succeeded)
           more == next <= Len(batch.files)
           reported == IF succeeded THEN uploader.error ELSE Some(name)
       IN /\ log' = IF outcome \in {"ok", "lost"}
                    THEN Append(log, DocMessage(log, name, UploadCaption(None)))
                    ELSE log
          /\ uploader' =
               [uploader EXCEPT
                  !.error = reported,
                  !.recordedBlob = IF b = "video" /\ succeeded THEN FALSE ELSE @,
                  !.isUploading = IF more THEN @ ELSE FALSE,
                  !.uploadProgress = IF more THEN @ ELSE 0,
                  !.batch[b] =
                     [batch EXCEPT
                        !.pc = IF more THEN "uploading" ELSE "ended",
                        !.i = next,
                        !.outcomes = Append(@, succeeded),
                        !.attempts = IF more THEN Append(@, batch.files[next]) ELSE @]]

\* SpecUploader: the uploader on a chat that starts empty
InitUploader ==
  /\ log = <<>> /\ call = CallNone /\ ViewerIdle /\ clients = <<>>
  /\ uploader = UploaderMounted
NextUploader ==
  \/ \E b \in DropIds, files \in DropLists :
       onDrop(b, files) /\ UNCHANGED <<call, viewVars, clients>>
  \/ RecorderStops /\ UNCHANGED <<call, viewVars, clients>>
  \/ handleUpload /\ UNCHANGED <<call, viewVars, clients>>
  \/ \E b \in BatchIds : BatchProgress(b) /\ UNCHANGED <<call, viewVars, clients>>
  \/ \E b \in BatchIds : BatchUploadEnds(b) /\ UNCHANGED <<call, viewVars, clients>>
SpecUploader == InitUploader /\ [][NextUploader]_vars

----------------------------------------------------------------------------
(* Reading a page without the library: what the claims compare getFiles to *)

\* The records of a page, in page order
RECURSIVE RecordsOf(_)
RecordsOf(page) ==
  IF page = <<>> THEN <<>>
  ELSE (IF KeptUpdate(Head(page)) THEN DecodeRecord(Head(page)) ELSE <<>>)
       \o RecordsOf(Tail(page))

\* absent, or the empty string that the code's own tests treat as absent
IsRootRecord(r) == r.parentId = None \/ r.parentId = Some(<<>>)
InCalledFolder(r) == r.parentId = call.parentId

\* An entry the decoder has a shape for: a document, or a text starting 'folder:'
Recognized(u) ==
  /\ u.message # None
  /\ \/ u.message[1].document # None
     \/ /\ u.message[1].text # None
        /\ Len(u.message[1].text[1]) >= 7
        /\ SubSeq(u.message[1].text[1], 1, 7) = <<"f", "o", "l", "d", "e", "r", ":">>

\* The ids a record made from entry u would carry
EntryIds(u) ==
  IF u.message = None THEN {}
  ELSE {toString(u.message[1].message_id)} \cup
       (IF u.message[1].document # None THEN {u.message[1].document[1].file_id} ELSE {})

ItemIds(its) == {its[j].id : j \in 1..Len(its)}

\* A record whose parentId names no record of the page
IsOrphan(r, page) ==
  /\ r.parentId # None
  /\ \A k \in 1..Len(RecordsOf(page)) : RecordsOf(page)[k].id # r.parentId[1]

FetchedOk == call.op = "getFiles" /\ call.ok

(* C1: getFiles called for the root returns exactly the records of the page whose
   parentId is absent; a record that carries a parentId is not in the result. *)
C1_RootListingOnlyRootRecords ==
  (FetchedOk /\ ~Truthy(call.parentId))
    => /\ call.items = SelectSeq(RecordsOf(log), IsRootRecord)
       /\ \A j \in 1..Len(call.items) : IsRootRecord(call.items[j])

(* C2: getFiles(F) for a folder id F returns exactly the records of the page,
   files and folders, whose decoded parentId is F, in page order. *)
C2_FolderListingExact ==
  (FetchedOk /\ Truthy(call.parentId))
    => call.items = SelectSeq(RecordsOf(log), InCalledFolder)

C2_Witness ==
  /\ FetchedOk /\ Truthy(call.parentId)
  /\ Len(call.items) = 1
  /\ Len(RecordsOf(log)) = 2

(* C5: an entry that is neither a document nor a text starting 'folder:' yields
   no item of any fetch result, root or folder: every item comes from a
   recognized entry, and no item carries an unrecognized entry's id. *)
C5_UnrecognizedIgnored ==
  FetchedOk =>
    /\ \A j \in 1..Len(call.items) :
         \E i \in 1..Len(log) : Recognized(log[i]) /\ call.items[j].id \in EntryIds(log[i])
    /\ \A i \in 1..Len(log) :
         ~Recognized(log[i]) => EntryIds(log[i]) \cap ItemIds(call.items) = {}

C5_Witness ==
  /\ FetchedOk
  /\ Len(call.items) = 1
  /\ \E i \in 1..Len(log) : log[i].message # None /\ ~Recognized(log[i])

(* C6: a record whose parentId names no record of the page is in the root
   listing, and a root fetch whose requests all succeed does not fail. *)
C6_OrphansListedAtRoot ==
  (call.op = "getFiles" /\ ~Truthy(call.parentId))
    => /\ (call.outcome = "ok" /\ call.bad = {}) => call.ok
       /\ call.ok =>
            \A k \in 1..Len(RecordsOf(log)) :
               IsOrphan(RecordsOf(log)[k], log)
                 => \E j \in 1..Len(call.items) : call.items[j] = RecordsOf(log)[k]

C6_Witness ==
  /\ FetchedOk /\ ~Truthy(call.parentId)
  /\ \E j \in 1..Len(call.items) : IsOrphan(call.items[j], log)

NoColon(str) == \A i \in 1..Len(str) : str[i] # ":"

(* C3: for a name without ':' and any parentId, absent or a folder id, the text
   createFolder sends decodes to a folder record with that name and that parentId
   (absent stays absent): the record getFiles lists is the record createFolder
   returned. *)
C3_FolderRoundTrip ==
  (call.op = "createFolder" /\ call.ok /\ NoColon(call.name))
    => LET sent == log[Len(log)]
           listed == getFiles(log, None, "ok", {}).items
       IN /\ Val(sent.message).text = Some(FolderText(call.name, call.parentId))
          /\ DecodeRecord(sent) # None
          /\ Val(DecodeRecord(sent)).name = call.name
          /\ Val(DecodeRecord(sent)).parentId = call.parentId
          /\ listed[Len(listed)] = Val(call.ret)

C3_Witness ==
  /\ call.op = "createFolder" /\ call.ok /\ NoColon(call.name)
  /\ call.parentId = Some(Id7)
  /\ Len(log) = 2
  /\ Val(DecodeRecord(log[1])).parentId = None

(* C4: for every parentId, absent or a folder id, the caption uploadToTelegram
   attaches decodes to exactly that parentId. *)
C4_CaptionRoundTrip ==
  (call.op = "uploadToTelegram" /\ call.fileId # None)
    => LET sent == log[Len(log)]
       IN /\ Val(sent.message).caption = call.caption
          /\ CaptionParent(Val(sent.message).caption) = call.parentId
          /\ Val(DecodeRecord(sent)).parentId = call.parentId

C4_Witness ==
  /\ call.op = "uploadToTelegram" /\ call.pc = "done"
  /\ call.parentId = Some(Id1)
  /\ Len(log) = 2
  /\ Val(log[1].message).document # None
  /\ Val(DecodeRecord(log[1])).parentId = None

----------------------------------------------------------------------------
(* FileViewer (FileViewer.tsx:26-180) *)

ErrFetchItems == "Failed to fetch items. Please try again later."

\* Mutant: no spinner branch, the grid stays rendered while a fetch is pending
GridShown_NoSpinner == error = None /\ items # <<>>

\* lines 136-161: the spinner, the error box and the "No items" text each return
\* before the grid, and with it the Back button and the folder tiles, is rendered
GridShown == ~isLoading /\ error = None /\ items # <<>>

\* Mutant: the clicked folder pushed instead of the one left
PushedEntry_Clicked(current, folderId) == folderId

\* line 53: `currentFolder || ''`, the entry handleFolderClick pushes
PushedEntry(current, folderId) == IF Truthy(current) THEN Val(current) ELSE <<>>

\* Mutant: fetchItems without setIsLoading(true)
EffectOnFolder_NoLoadingFlag(next) ==
  IF next # currentFolder
  THEN /\ isLoading' = isLoading
       /\ error' = None
       /\ inflight' = Append(inflight, next)
  ELSE UNCHANGED <<isLoading, error, inflight>>

\* lines 33-35 and 38-41: the effect runs when currentFolder changed (Object.is)
\* and fetchItems starts: setIsLoading(true), setError(null), getFiles(folderId)
EffectOnFolder(next) ==
  IF next # currentFolder
  THEN /\ isLoading' = TRUE
       /\ error' = None
       /\ inflight' = Append(inflight, next)
  ELSE UNCHANGED <<isLoading, error, inflight>>

\* Mutant: nothing pushed when the folder left is the root
\* (`if (currentFolder) setFolderHistory(...)`)
handleFolderClick_NoRootPush(folderId) ==
  /\ Len(folderHistory) < MaxDepth
  /\ folderHistory' = IF Truthy(currentFolder)
                       THEN Append(folderHistory, Val(currentFolder))
                       ELSE folderHistory
  /\ currentFolder' = Some(folderId)
  /\ EffectOnFolder(Some(folderId))
  /\ navFrom' = Append(navFrom, [c |-> currentFolder, h |-> folderHistory])
  /\ UNCHANGED <<items, shownFor>>

\* lines 52-55, with the effect the new currentFolder triggers
handleFolderClick(folderId) ==
  /\ Len(folderHistory) < MaxDepth
  /\ folderHistory' = Append(folderHistory, PushedEntry(currentFolder, folderId))
  /\ currentFolder' = Some(folderId)
  /\ EffectOnFolder(Some(folderId))
  /\ navFrom' = Append(navFrom, [c |-> currentFolder, h |-> folderHistory])
  /\ UNCHANGED <<items, shownFor>>

\* lines 57-61, with the effect: pop() of an empty array returns undefined
handleBackClick ==
  LET previousFolder == IF folderHistory = <<>> THEN None
                        ELSE Some(folderHistory[Len(folderHistory)])
  IN /\ folderHistory' = IF folderHistory = <<>> THEN <<>>
                         ELSE SubSeq(folderHistory, 1, Len(folderHistory) - 1)
     /\ currentFolder' = previousFolder
     /\ EffectOnFolder(previousFolder)
     /\ navFrom' = IF navFrom = <<>> THEN <<>> ELSE SubSeq(navFrom, 1, Len(navFrom) - 1)
     /\ UNCHANGED <<items, shownFor>>

\* lines 124-131: a click on a folder tile of the grid (an item without url)
ClickFolder ==
  /\ GridShown
  /\ \E j \in 1..Len(items) :
       /\ "url" \notin DOMAIN items[j]
       /\ handleFolderClick(items[j].id)

\* lines 165-170: a click on the Back button, rendered when currentFolder is truthy
ClickBack ==
  /\ GridShown
  /\ Truthy(currentFolder)
  /\ handleBackClick

\* handleBackClick called on an empty history, whatever is rendered (the Back
\* button of line 165 is never rendered then)
CallBack ==
  /\ folderHistory = <<>>
  /\ Len(inflight) < MaxInflight
  /\ handleBackClick

\* Mutant: the catch block also clears the list (setItems([]))
FetchSettles_ClearsOnFailure ==
  \E k \in 1..Len(inflight), outcome \in FetchOutcomes,
     bad \in {{}} \cup {{x} : x \in Refs(log)} :
    LET r == getFiles(log, inflight[k], outcome, bad)
    IN /\ outcome # "ok" => bad = {}
       /\ inflight' = SubSeq(inflight, 1, k - 1) \o SubSeq(inflight, k + 1, Len(inflight))
       /\ IF r.ok
          THEN /\ items' = r.items
               /\ shownFor' = Some(inflight[k])
               /\ error' = error
          ELSE /\ error' = Some(ErrFetchItems)
               /\ items' = <<>>
               /\ UNCHANGED shownFor
       /\ isLoading' = FALSE
       /\ UNCHANGED <<currentFolder, folderHistory, navFrom>>

\* lines 41-49: the awaited getFiles(folderId) of fetchItems settles
FetchSettles ==
  \E k \in 1..Len(inflight), outcome \in FetchOutcomes,
     bad \in {{}} \cup {{x} : x \in Refs(log)} :
    LET r == getFiles(log, inflight[k], outcome, bad)
    IN /\ outcome # "ok" => bad = {}
       /\ inflight' = SubSeq(inflight, 1, k - 1) \o SubSeq(inflight, k + 1, Len(inflight))
       /\ IF r.ok
          THEN /\ items' = r.items
               /\ shownFor' = Some(inflight[k])
               /\ error' = error
          ELSE /\ error' = Some(ErrFetchItems)
               /\ UNCHANGED <<items, shownFor>>
       /\ isLoading' = FALSE
       /\ UNCHANGED <<currentFolder, folderHistory, navFrom>>

\* The chats the viewer is shown on
ChatTree ==
  << Msg(1, None, None, Some(FolderText(NameA, None))),
     Msg(2, None, None, Some(FolderText(<<"b">>, Some(Id1)))),
     Msg(3, Some(Doc(FileId(3), Some(<<"p">>), Some("image/png"), None)),
         Some(ParentPrefix \o Id2), None),
     Msg(4, None, None, Some(FolderText(<<"c">>, None))) >>
ChatCycle ==
  << Msg(1, None, None, Some(FolderText(NameA, Some(Id2)))),
     Msg(2, None, None, Some(FolderText(<<"b">>, Some(Id1)))) >>
ChatFiles ==
  << Msg(1, Some(Doc(FileId(1), None, None, Some(ThumbId(1)))), None, None),
     Msg(2, None, None, Some(<<"h", "i">>)) >>
ChatOrphans ==
  << Msg(1, None, None, Some(FolderText(NameA, Some(Id7)))),
     Msg(2, None, None, Some(FolderText(NameAB, Some(Id1)))),
     Msg(3, Some(Doc(FileId(3), Some(<<"p">>), None, None)), Some(ParentPrefix \o Id1), None) >>
ViewerChats == {ChatTree, ChatCycle, ChatFiles, ChatOrphans, <<>>}

\* The component mounted: useState's initial values (lines 27-31) and the first
\* run of the effect, fetchItems(undefined)
InitViewer ==
  /\ log \in ViewerChats /\ call = CallNone
  /\ items = <<>> /\ isLoading = TRUE /\ error = None
  /\ currentFolder = None /\ folderHistory = <<>>
  /\ inflight = <<None>>
  /\ shownFor = None /\ navFrom = <<>>
  /\ clients = <<>> /\ uploader = <<>>

\* SpecViewer: the viewer as rendered
NextViewer ==
  \/ ClickFolder /\ UNCHANGED <<libVars, clients, uploader>>
  \/ ClickBack /\ UNCHANGED <<libVars, clients, uploader>>
  \/ FetchSettles /\ UNCHANGED <<libVars, clients, uploader>>
SpecViewer == InitViewer /\ [][NextViewer]_vars

\* SpecHandlers: the same, and handleBackClick called directly at the root
NextHandlers ==
  \/ ClickFolder /\ UNCHANGED <<libVars, clients, uploader>>
  \/ ClickBack /\ UNCHANGED <<libVars, clients, uploader>>
  \/ FetchSettles /\ UNCHANGED <<libVars, clients, uploader>>
  \/ CallBack /\ UNCHANGED <<libVars, clients, uploader>>
SpecHandlers == InitViewer /\ [][NextHandlers]_vars

Last(seq) == seq[Len(seq)]

(* C7: from a navigation state (currentFolder = c, history = h), a folder click
   followed by Back leaves currentFolder equal to c, the same value for the root
   too, and history equal to h. *)
C7_BackRestoresExactState ==
  [][(ClickBack /\ navFrom # <<>>)
       => /\ currentFolder' = Last(navFrom).c
          /\ folderHistory' = Last(navFrom).h]_vars

(* C7 as amended: Back leaves history equal to h and currentFolder at the folder
   c denoted: c itself when c is a folder id, the empty string when c is the root
   (undefined or ''). *)
C7_BackRestoresFolder ==
  [][(ClickBack /\ navFrom # <<>>)
       => /\ folderHistory' = Last(navFrom).h
          /\ currentFolder' = Some(IF Truthy(Last(navFrom).c)
                                   THEN Val(Last(navFrom).c) ELSE <<>>)]_vars

C7_Witness ==
  /\ currentFolder = Some(<<>>) /\ folderHistory = <<>>
  /\ shownFor = Some(Some(<<>>)) /\ GridShown

C9_NoStaleItems ==
  /\ \A k \in 1..Len(inflight) : inflight[k] = currentFolder
  /\ (~isLoading /\ error = None /\ shownFor # None) => Val(shownFor) = currentFolder

C9_Witness ==
  /\ GridShown /\ Truthy(currentFolder)
  /\ shownFor = Some(currentFolder)
  /\ Len(folderHistory) = 2

NonDecreasing(seq) == \A i \in 1..(Len(seq) - 1) : seq[i] <= seq[i + 1]

(* C10: for a successful uploadToTelegram call the values passed to onProgress
   are non-decreasing, within 0..100, and the last one delivered is 100. *)
C10_ProgressEndsAt100 ==
  (call.op = "uploadToTelegram" /\ call.pc = "done")
    => /\ NonDecreasing(call.progress)
       /\ \A i \in 1..Len(call.progress) : call.progress[i] \in 0..100
       /\ call.progress # <<>> => Last(call.progress) = 100

(* C11: for an uploadToTelegram call that ends in failure (transport error, not-ok
   response, or failure of the follow-up getFileUrl), no value 100 was passed to
   onProgress during the call. *)
C11_NoHundredOnFailure ==
  (call.op = "uploadToTelegram" /\ call.pc = "failed")
    => \A i \in 1..Len(call.progress) : call.progress[i] # 100

(* C15: whenever uploadToTelegram or createFolder fails, the Error thrown to the
   caller carries the detail the transport reported with the failing request,
   for every way the call can fail. *)
C15_ErrorDetailPreserved ==
  (call.op \in {"uploadToTelegram", "createFolder"} /\ call.pc = "failed")
    => /\ call.cause # None
       /\ call.error.detail = call.cause

(* C17: createFolder sends the text 'folder:' + name when no parent is given and
   'folder:' + name + ':' + parentId when one is given; uploadToTelegram sends
   the caption 'parent:' + parentId when a parent is given and no caption when
   none is given. *)
C17_WireFormatsExact ==
  /\ (call.op = "createFolder" /\ call.outcome \in {"ok", "lost"})
       => Val(Last(log).message).text =
            Some(IF call.parentId = None
                 THEN <<"f", "o", "l", "d", "e", "r", ":">> \o call.name
                 ELSE <<"f", "o", "l", "d", "e", "r", ":">> \o call.name
                        \o <<":">> \o call.parentId[1])
  /\ call.op = "uploadToTelegram"
       => LET expected == IF call.parentId = None THEN None
                          ELSE Some(<<"p", "a", "r", "e", "n", "t", ":">>
                                      \o call.parentId[1])
          IN /\ call.caption = expected
             /\ call.fileId # None => Val(Last(log).message).caption = expected

C17_Witness ==
  /\ call.op = "uploadToTelegram" /\ call.pc = "resolving"
  /\ call.parentId = None
  /\ Len(log) = 2
  /\ Val(log[1].message).text = Some(<<"f", "o", "l", "d", "e", "r", ":", "a", ":", "2">>)

(* C18: the log is append-only: no step of createFolder, uploadToTelegram or
   getFiles changes or removes an entry already in the log; a create adds at most
   one entry at the end, and a fetch leaves the log unchanged. *)
C18_LogAppendOnly ==
  [][/\ \/ log' = log
        \/ Len(log') = Len(log) + 1 /\ SubSeq(log', 1, Len(log)) = log
     /\ (call' # call /\ call'.op = "getFiles") => log' = log]_vars

C18_Witness ==
  /\ call.op = "getFiles" /\ call.ok /\ Len(call.items) = 2
  /\ Len(log) = 2
  /\ Val(log[2].message).document # None

(* C14: when the page request or any getFileUrl performed during a fetch fails,
   getFiles throws and returns no record: never a partial list. *)
C14_FetchAllOrNothing ==
  (call.op = "getFiles" /\ (call.outcome # "ok" \/ call.failed # {}))
    => /\ call.pc = "failed"
       /\ ~call.ok
       /\ call.items = <<>>

C14_Witness ==
  /\ call.op = "getFiles" /\ call.pc = "failed"
  /\ call.failed # {}
  /\ \E i \in 1..Len(call.cb) : call.cb[i].pc = "done" /\ call.cb[i].result # None

(* C16: within one call each transport request is issued at most once, and after
   a failed request no further request is issued for that call. *)
C16_NoRequestAfterFailure ==
  (call.op # "none" /\ "requests" \in DOMAIN call)
    => /\ \A k \in 1..Len(call.requests) : ~call.requests[k].late
       /\ \A j, k \in 1..Len(call.requests) :
            j # k => <<call.requests[j].kind, call.requests[j].ref>>
                       # <<call.requests[k].kind, call.requests[k].ref>>

(* C19: during getFiles(F) no getFileUrl request is issued for a file whose
   decoded parentId differs from F, so that the failure of such a request cannot
   make the fetch of F fail. *)
C19_ResolveOnlyFiltered ==
  (call.op = "getFiles" /\ call.parentId # None /\ call.parentId # Some(<<>>))
    => \A i \in 1..Len(call.kept) :
         LET message == call.kept[i].message[1]
         IN (/\ message.document # None
             /\ \E k \in 1..Len(call.requests) :
                  call.requests[k].ref = message.document[1].file_id)
              => CaptionParent(message.caption) = call.parentId

\* The position in the page of the entry an item was made from
PositionOf(item, page) == CHOOSE i \in 1..Len(page) : item.id \in EntryIds(page[i])

(* C20: the records a fetch returns are in the relative order of their entries
   in the page, files and folders interleaved, whatever order the getFileUrl
   requests end in. *)
C20_OrderPreserved ==
  (call.op = "getFiles" /\ call.pc = "done")
    => /\ \A j \in 1..Len(call.items) :
            \E i \in 1..Len(log) : call.items[j].id \in EntryIds(log[i])
       /\ \A j, k \in 1..Len(call.items) :
            j < k => PositionOf(call.items[j], log) < PositionOf(call.items[k], log)

C20_Witness ==
  /\ call.op = "getFiles" /\ call.pc = "done"
  /\ Len(call.items) = 2
  /\ "url" \in DOMAIN call.items[1]
  /\ "url" \notin DOMAIN call.items[2]
  /\ call.order = <<2, 1>>

\* Two clients whose createFolder calls, for the same name and no parent, have
\* both returned
BothCreated(a, b) ==
  /\ a # b
  /\ clients[a].folder # None /\ clients[b].folder # None
  /\ clients[a].name = clients[b].name
  /\ clients[a].parentId = None /\ clients[b].parentId = None

\* The listing holds two folder records of that name, with these two ids
ListsBoth(listing, name, ida, idb) ==
  \E j, k \in 1..Len(listing) :
    /\ j # k
    /\ "url" \notin DOMAIN listing[j] /\ "url" \notin DOMAIN listing[k]
    /\ listing[j].name = name /\ listing[k].name = name
    /\ listing[j].id = ida /\ listing[k].id = idb

(* C12: two createFolder calls with the same name and no parent, interleaved in
   any way, return two distinct ids, and a later root fetch lists two folder
   records with that name. *)
C12_DuplicateFolders ==
  [][\A a, b \in Clients :
       BothCreated(a, b)
         => /\ clients[a].folder[1].id # clients[b].folder[1].id
            /\ \A c \in Clients :
                 (clients[c].root = None /\ clients'[c].root # None)
                   => ListsBoth(clients'[c].root[1], clients[a].name,
                                clients[a].folder[1].id, clients[b].folder[1].id)]_vars

(* C12 as amended: the same for a name without ':'. *)
C12_DuplicateFoldersPlainName ==
  [][\A a, b \in Clients :
       (BothCreated(a, b) /\ NoColon(clients[a].name))
         => /\ clients[a].folder[1].id # clients[b].folder[1].id
            /\ \A c \in Clients :
                 (clients[c].root = None /\ clients'[c].root # None)
                   => ListsBoth(clients'[c].root[1], clients[a].name,
                                clients[a].folder[1].id, clients[b].folder[1].id)]_vars

C12_Witness ==
  \E a, b, c \in Clients :
    /\ BothCreated(a, b) /\ NoColon(clients[a].name)
    /\ clients[c].root # None
    /\ ListsBoth(clients[c].root[1], clients[a].name,
                 clients[a].folder[1].id, clients[b].folder[1].id)

(* C13: after createFolder returned the id F1 and uploadToTelegram(file, name, F1)
   succeeded, getFiles(F1) on a page holding both entries returns exactly one
   file record of that name; its parentId is F1 and it is the uploaded file. *)
C13_CreateThenList ==
  \A c \in Clients :
    clients[c].pc = "listed"
      => LET F1 == clients[c].folder[1].id
             listing == clients[c].listed[1]
             named == {j \in 1..Len(listing) :
                         "url" \in DOMAIN listing[j]
                           /\ listing[j].name = clients[c].fileName}
         IN /\ Cardinality(named) = 1
            /\ \A j \in named : /\ listing[j].parentId = <<F1>>
                                /\ listing[j].id = clients[c].file[1].id

C13_Witness ==
  \E c \in Clients :
    /\ clients[c].pc = "listed"
    /\ clients[c].parentId = None
    /\ clients[c].folder[1].id = <<"2">>
    /\ Len(clients[c].listed[1]) = 1
    /\ Len(log) = 4

\* A caption that is absent or does not start with 'parent:'
MalformedCaption(captionOpt) ==
  \/ captionOpt = None
  \/ Len(captionOpt[1]) < 7
  \/ SubSeq(captionOpt[1], 1, 7) # <<"p", "a", "r", "e", "n", "t", ":">>

(* C21: a document entry decodes to a file record whatever its caption; a caption
   that is absent or not of the form 'parent:<id>' gives an absent parentId and no
   error, and the other entries of the page are still decoded and returned. *)
C21_MalformedCaptionDegrades ==
  (call.op = "getFiles" /\ call.outcome = "ok" /\ call.bad = {}
     /\ ~Truthy(call.parentId))
    => /\ call.ok
       /\ \A i \in 1..Len(log) :
            (log[i].message # None /\ log[i].message[1].document # None)
              => \E j \in 1..Len(call.items) :
                   /\ "url" \in DOMAIN call.items[j]
                   /\ call.items[j].id = log[i].message[1].document[1].file_id
                   /\ MalformedCaption(log[i].message[1].caption)
                        => call.items[j].parentId = None
       /\ Len(call.items) = Cardinality({i \in 1..Len(log) : Recognized(log[i])})

C21_Witness ==
  /\ FetchedOk /\ call.parentId = None
  /\ Len(log) = 2 /\ Len(call.items) = 2
  /\ log[1].message # None /\ log[1].message[1].document # None
  /\ log[1].message[1].caption = <<<<"x">>>>
  /\ "url" \notin DOMAIN call.items[2]

\* The positions of the ':' of a text, and the segment after the n-th of them
ColonsOf(t) == {i \in 1..Len(t) : t[i] = ":"}
NthColon(t, n) ==
  CHOOSE i \in ColonsOf(t) : Cardinality({j \in ColonsOf(t) : j <= i}) = n
SegmentAfter(t, n) ==
  SubSeq(t, NthColon(t, n) + 1,
         IF Cardinality(ColonsOf(t)) > n THEN NthColon(t, n + 1) - 1 ELSE Len(t))

(* C30: a text starting with 'folder:' always decodes: the name is the segment
   between the first and the second ':', the parentId the segment between the
   second and the third ':' (absent when there is no second ':'), and what follows
   a third ':' is discarded. *)
C30_FolderTextResolution ==
  (FetchedOk /\ ~Truthy(call.parentId))
    => \A i \in 1..Len(log) :
         (/\ log[i].message # None
          /\ log[i].message[1].document = None
          /\ Recognized(log[i]))
           => LET t == log[i].message[1].text[1]
              IN \E j \in 1..Len(call.items) :
                   /\ "url" \notin DOMAIN call.items[j]
                   /\ call.items[j].id = toString(log[i].message[1].message_id)
                   /\ call.items[j].name = SegmentAfter(t, 1)
                   /\ call.items[j].parentId =
                        (IF Cardinality(ColonsOf(t)) >= 2
                         THEN <<SegmentAfter(t, 2)>> ELSE <<>>)

C30_Witness ==
  /\ FetchedOk /\ call.parentId = None
  /\ Len(call.items) = 2
  /\ call.items[2].name = <<"a">> /\ call.items[2].parentId = <<<<"b">>>>
  /\ log[2].message[1].text = <<<<"f", "o", "l", "d", "e", "r", ":", "a", ":", "b", ":", "1">>>>

(* C22: in every state in which currentFolder is not the root and its fetch has
   ended, with a non-empty result, an empty result or a failure, the Back button
   is offered, so that the root can be reached again. *)
C22_BackAlwaysAvailable ==
  (currentFolder # None /\ currentFolder # Some(<<>>) /\ inflight = <<>>)
    => (~isLoading /\ error = None /\ items # <<>>)

(* C24: currentFolder denotes the root (undefined or '') exactly when
   folderHistory is empty, so the Back button, rendered only for a non-root
   currentFolder, is never pressed on an empty history. *)
C24_RootIffEmptyHistory ==
  /\ (currentFolder = None \/ currentFolder = Some(<<>>)) <=> folderHistory = <<>>
  /\ (GridShown /\ Truthy(currentFolder)) => folderHistory # <<>>

C24_Witness ==
  /\ GridShown /\ Truthy(currentFolder)
  /\ Len(folderHistory) = 1
  /\ navFrom # <<>>

(* C25: at most one fetch of the viewer is in flight at any time, and isLoading
   is true for as long as one is. *)
C25_OneFetchInFlight ==
  /\ Len(inflight) <= 1
  /\ inflight # <<>> => isLoading

C25_Witness ==
  /\ Len(inflight) = 1 /\ isLoading
  /\ Truthy(currentFolder)
  /\ items # <<>>

(* C26: when a fetch fails the item list keeps the value it had, the error is set
   and isLoading returns to false; when a fetch succeeds the item list becomes
   the fetched result and the error is clear. *)
C26_FetchOutcomeApplied ==
  [][Len(inflight') < Len(inflight)
       => /\ isLoading' = FALSE
          /\ \/ /\ error' = <<"Failed to fetch items. Please try again later.">>
                /\ items' = items
             \/ /\ error' = None
                /\ \E k \in 1..Len(inflight) :
                     items' = getFiles(log, inflight[k], "ok", {}).items]_vars

C26_Witness ==
  /\ ~isLoading /\ error # None
  /\ items # <<>>
  /\ Truthy(currentFolder)

(* C27: uploadToTelegram returns a file record only if both the sendDocument
   request and the follow-up getFileUrl succeeded; if either fails it throws and
   returns no record; in both outcomes it has issued exactly one sendDocument
   request. *)
C27_UploadReturnsOnlyOnBothOk ==
  (call.op = "uploadToTelegram" /\ call.pc \in {"done", "failed"})
    => /\ Cardinality({k \in 1..Len(call.requests) :
                         call.requests[k].kind = "sendDocument"}) = 1
       /\ call.pc = "done"
            => /\ call.ret # None /\ call.cause = None
               /\ call.fileId # None
               /\ \E k \in 1..Len(call.requests) :
                    call.requests[k].kind = "getFile"
                      /\ call.requests[k].ref = call.fileId[1]
               /\ \E i \in 1..Len(log) :
                    /\ log[i].message[1].document # None
                    /\ log[i].message[1].document[1].file_id = call.ret[1].id
       /\ call.pc = "failed" => (call.ret = None /\ call.cause # None /\ ~call.ok)

C27_Witness ==
  /\ call.op = "uploadToTelegram" /\ call.pc = "failed"
  /\ call.fileId # None
  /\ Len(call.requests) = 2
  /\ Len(log) = 1

(* C28: for a dropped batch onDrop attempts every file exactly once, one at a
   time in list order; a failed upload is reported and the files after it are
   still attempted; the step that ends the batch leaves isUploading false and
   uploadProgress 0 whatever the outcomes were. *)
C28_BatchAttemptsEveryFile ==
  [][\A b \in DropIds :
       LET old == uploader.batch[b]
           new == uploader'.batch[b]
       IN /\ new.pc = "uploading"
               => /\ new.i \in 1..Len(new.files)
                  /\ new.attempts = SubSeq(new.files, 1, new.i)
                  /\ Len(new.outcomes) = new.i - 1
          /\ new.pc = "ended"
               => /\ new.attempts = new.files
                  /\ Len(new.outcomes) = Len(new.files)
          /\ (Len(new.outcomes) > Len(old.outcomes)
                 /\ ~new.outcomes[Len(new.outcomes)])
               => uploader'.error = Some(old.files[old.i])
          /\ (old.pc = "uploading" /\ new.pc = "ended")
               => (~uploader'.isUploading /\ uploader'.uploadProgress = 0)
    ]_vars

C28_Witness ==
  \E b \in DropIds :
    /\ uploader.batch[b].pc = "ended"
    /\ Len(uploader.batch[b].files) = MaxBatch
    /\ ~uploader.batch[b].outcomes[1]
    /\ uploader.batch[b].attempts = uploader.batch[b].files
    /\ ~uploader.isUploading /\ uploader.uploadProgress = 0

(* C29: isUploading is true at every moment at which an upload started by the
   uploader, of a dropped batch or of a recorded video, is still in flight, a
   second batch dropped while the first is uploading included. *)
C29_UploadingWhileInFlight ==
  (\E b \in BatchIds : uploader.batch[b].pc = "uploading") => uploader.isUploading

\* The parent links among the records of a page, as pairs of positions: from a
\* record to each record whose id its parentId names
ParentLinks(records) ==
  {link \in (1..Len(records)) \X (1..Len(records)) :
     /\ records[link[1]].parentId # None
     /\ records[link[2]].id = records[link[1]].parentId[1]}

\* The pairs joined by a chain of at most n + 1 links
RECURSIVE LinkChains(_, _)
LinkChains(links, n) ==
  IF n = 0 THEN links
  ELSE LET shorter == LinkChains(links, n - 1)
           ends == {l[1] : l \in links} \cup {l[2] : l \in links}
       IN shorter \cup {pair \in ends \X ends :
                          \E mid \in ends : /\ <<pair[1], mid>> \in shorter
                                            /\ <<mid, pair[2]>> \in links}

(* C23: the parent relation over the records of the log is a forest: each record
   has at most one parent and, after any sequence of createFolder and
   uploadToTelegram calls, following parentId links from a record never returns
   to that record. *)
C23_ParentForest ==
  LET records == RecordsOf(log)
      links == ParentLinks(records)
  IN /\ \A i \in 1..Len(records) :
          Cardinality({link \in links : link[1] = i}) <= 1
     /\ \A i \in 1..Len(records) : <<i, i>> \notin LinkChains(links, Len(records))

====
